---- MODULE Spec2Model ----
(***************************************************************************)
(* Model of pyowm/utils/converter.py: the time and unit conversion         *)
(* functions of the pyowm weather client.                                  *)
(*                                                                         *)
(* Python values are tagged records [kind, v].  A str is a sequence of     *)
(* one-character strings, so that formatting and parsing are modelled      *)
(* character by character.  A float is a fixed-point number counted in     *)
(* units of 0.0001; the representation error of binary doubles is the      *)
(* variable fperr (see FloatResult).  Integers are Python longs: unbounded in *)
(* the program, bounded here only by the inputs drawn.                     *)
(***************************************************************************)
EXTENDS Integers, Sequences, FiniteSets, TLC

VARIABLES
    call,       \* the call being made: [fn, arg]
    outcome,    \* what the call did: a returned value or a raised error
    prev,       \* the call made before it and its outcome
    consts,     \* the module-level constants of converter.py
    fperr       \* sign of the rounding error of the platform's double arithmetic

vars == <<call, outcome, prev, consts, fperr>>

(***************************************************************************)
(* Bounds of the input space.                                              *)
(***************************************************************************)
MaxDayIdx == 5        \* epoch inputs: day index
MaxSecIdx == 3        \* epoch inputs: second-of-day index
MaxKelvinIdx == 10    \* Kelvin inputs

(***************************************************************************)
(* Python values                                                           *)
(***************************************************************************)
IntVal(n) == [kind |-> "int", v |-> n]
FloatVal(u) == [kind |-> "float", v |-> u]
StrVal(s) == [kind |-> "str", v |-> s]
DatetimeVal(d) == [kind |-> "datetime", v |-> d]
NoneVal == [kind |-> "NoneType", v |-> 0]
UnicodeVal(s) == [kind |-> "unicode", v |-> s]

\* isinstance(x, (long, int))
IsInt(x) == x.kind = "int"
\* isinstance(x, (long, int, float))
IsNumeric(x) == x.kind \in {"int", "float"}
\* isinstance(x, str)
IsStr(x) == x.kind = "str"
\* isinstance(x, datetime)
IsDatetime(x) == x.kind = "datetime"

\* One unit of a float is 0.0001; an int n is n * FloatUnit units.
FloatUnit == 10000
\* The numeric value of an int or float, in float units.
NumUnits(x) == IF x.kind = "int" THEN x.v * FloatUnit ELSE x.v

(***************************************************************************)
(* Outcomes of a call                                                      *)
(***************************************************************************)
Return(x) == [kind |-> "return", msg |-> <<>>, val |-> x]
\* raise exc(msg): msg is the sequence of the pieces concatenated by +
Raise(exc, m) == [kind |-> exc, msg |-> m, val |-> NoneVal]
NoOutcome == [kind |-> "none", msg |-> <<>>, val |-> NoneVal]

\* __name__ of the module
__name__ == "pyowm.utils.converter"

(***************************************************************************)
(* Characters and decimal digits                                           *)
(***************************************************************************)
DigitChar == <<"0", "1", "2", "3", "4", "5", "6", "7", "8", "9">>
IsDigit(c) == \E d \in 0..9 : DigitChar[d + 1] = c
DigitVal(c) == CHOOSE d \in 0..9 : DigitChar[d + 1] = c
IsSpace(c) == c \in {" ", "\t"}

\* n written with exactly w decimal digits, zero-padded (%0wd)
RECURSIVE ZeroPad(_, _)
ZeroPad(n, w) ==
    IF w = 0 THEN <<>>
    ELSE Append(ZeroPad(n \div 10, w - 1), DigitChar[(n % 10) + 1])

\* n >= 0 written with as many digits as it needs (%d)
RECURSIVE Decimal(_)
Decimal(n) ==
    IF n < 10 THEN <<DigitChar[n + 1]>>
    ELSE Append(Decimal(n \div 10), DigitChar[(n % 10) + 1])

\* int() of a sequence of digit characters
RECURSIVE DigitsToInt(_)
DigitsToInt(s) ==
    IF s = <<>> THEN 0
    ELSE 10 * DigitsToInt(SubSeq(s, 1, Len(s) - 1)) + DigitVal(s[Len(s)])

(***************************************************************************)
(* The proleptic Gregorian calendar, as datetime and calendar compute it   *)
(***************************************************************************)
\* calendar.isleap
isleap(year) == year % 4 = 0 /\ (year % 100 # 0 \/ year % 400 = 0)

\* calendar.mdays[month]
mdays == <<31, 28, 31, 30, 31, 30, 31, 31, 30, 31, 30, 31>>

\* days in a month of a year (datetime._days_in_month)
days_in_month(year, month) ==
    IF month = 2 /\ isleap(year) THEN 29 ELSE mdays[month]

\* datetime.date(year, 1, 1).toordinal(): days before January 1st, plus one
toordinal_jan1(year) ==
    LET y == year - 1
    IN  y * 365 + y \div 4 - y \div 100 + y \div 400 + 1

\* calendar._EPOCH_ORD = datetime.date(1970, 1, 1).toordinal()
EPOCH_ORD == toordinal_jan1(1970)

RECURSIVE SumMdays(_)
SumMdays(n) == IF n = 0 THEN 0 ELSE SumMdays(n - 1) + mdays[n]

\* calendar.timegm on the first six fields of a time tuple
timegm(t) ==
    LET days0 == toordinal_jan1(t.year) - EPOCH_ORD
        days1 == days0 + SumMdays(t.month - 1)
        days2 == IF t.month > 2 /\ isleap(t.year) THEN days1 + 1 ELSE days1
        days  == days2 + t.day - 1
        hours == days * 24 + t.hour
        minutes == hours * 60 + t.minute
    IN  minutes * 60 + t.second

\* hours east of UTC of a datetime's tzinfo
utcoffset_hours(d) ==
    IF d.tz = "+02:00" THEN 2 ELSE IF d.tz = "-05:00" THEN 0 - 5 ELSE 0

\* datetime.utctimetuple(): the fields with the UTC offset subtracted
utctimetuple(d) ==
    [year |-> d.year, month |-> d.month, day |-> d.day,
     hour |-> d.hour - utcoffset_hours(d), minute |-> d.minute,
     second |-> d.second]

\* date.timetuple(): the fields of the value as they stand; tzinfo is not applied
timetuple(d) ==
    [year |-> d.year, month |-> d.month, day |-> d.day,
     hour |-> d.hour, minute |-> d.minute, second |-> d.second]

\* gmtime: the calendar fields of t >= 0 seconds after 1970-01-01 00:00:00
gmtime(t) ==
    LET days == t \div 86400
        rem  == t % 86400
        ord  == days + EPOCH_ORD
        year == CHOOSE y \in 1970..(1970 + days \div 365) :
                    toordinal_jan1(y) <= ord /\ ord < toordinal_jan1(y + 1)
        yday == ord - toordinal_jan1(year)
        leap == IF isleap(year) THEN 1 ELSE 0
        before(m) == SumMdays(m - 1) + (IF m > 2 THEN leap ELSE 0)
        month == CHOOSE m \in 1..12 :
                    before(m) <= yday /\ (m = 12 \/ yday < before(m + 1))
    IN  [year |-> year, month |-> month, day |-> yday - before(month) + 1,
         hour |-> rem \div 3600, minute |-> (rem % 3600) \div 60,
         second |-> rem % 60, tz |-> "naive"]

\* datetime.fromtimestamp(t): local time, in a zone one hour east of UTC
fromtimestamp(t) == gmtime(t + 3600)

\* datetime.utcfromtimestamp(t) for t >= 0: the UTC calendar fields of t
utcfromtimestamp(t) == gmtime(t)

\* strftime('%Y-%m-%d %H:%M:%S+00')
strftime(d) ==
    ZeroPad(d.year, 4) \o <<"-">> \o ZeroPad(d.month, 2) \o <<"-">>
        \o ZeroPad(d.day, 2) \o <<" ">> \o ZeroPad(d.hour, 2) \o <<":">>
        \o ZeroPad(d.minute, 2) \o <<":">> \o ZeroPad(d.second, 2)
        \o <<"+", "0", "0">>

(***************************************************************************)
(* datetime.strptime(iso, '%Y-%m-%d %H:%M:%S+00')                          *)
(*                                                                         *)
(* _strptime turns the format into a regular expression, one group per     *)
(* directive, and a blank of the format into \s+ :                         *)
(*   %Y  \d\d\d\d                                                          *)
(*   %m  1[0-2]|0[1-9]|[1-9]                                               *)
(*   %d  3[01]|[12]\d|0[1-9]|[1-9]| [1-9]                                  *)
(*   %H  2[0-3]|[0-1]\d|\d                                                 *)
(*   %M  [0-5]\d|\d                                                        *)
(*   %S  6[0-1]|[0-5]\d|\d                                                 *)
(* Each matcher below gives the set of <<value, next position>> pairs of   *)
(* the ways its group can match at position i.                             *)
(***************************************************************************)
OneDigit(s, i, D) ==
    IF i <= Len(s) /\ IsDigit(s[i]) /\ DigitVal(s[i]) \in D
    THEN {<<DigitVal(s[i]), i + 1>>}
    ELSE {}

TwoDigits(s, i, T, O) ==
    IF i + 1 <= Len(s) /\ IsDigit(s[i]) /\ IsDigit(s[i + 1])
          /\ DigitVal(s[i]) \in T /\ DigitVal(s[i + 1]) \in O
    THEN {<<10 * DigitVal(s[i]) + DigitVal(s[i + 1]), i + 2>>}
    ELSE {}

Literal(s, i, c) == IF i <= Len(s) /\ s[i] = c THEN {i + 1} ELSE {}

\* \s+ : every position reached after one or more blanks
Blanks(s, i) ==
    {j \in (i + 1)..(Len(s) + 1) : \A k \in i..(j - 1) : IsSpace(s[k])}

Re_Y(s, i) ==
    IF i + 3 <= Len(s) /\ \A k \in i..(i + 3) : IsDigit(s[k])
    THEN {<<DigitsToInt(SubSeq(s, i, i + 3)), i + 4>>}
    ELSE {}

Re_m(s, i) ==
    TwoDigits(s, i, {1}, 0..2) \cup TwoDigits(s, i, {0}, 1..9)
        \cup OneDigit(s, i, 1..9)

Re_d(s, i) ==
    TwoDigits(s, i, {3}, 0..1) \cup TwoDigits(s, i, 1..2, 0..9)
        \cup TwoDigits(s, i, {0}, 1..9) \cup OneDigit(s, i, 1..9)
        \cup UNION {OneDigit(s, j, 1..9) : j \in Literal(s, i, " ")}

Re_H(s, i) ==
    TwoDigits(s, i, {2}, 0..3) \cup TwoDigits(s, i, 0..1, 0..9)
        \cup OneDigit(s, i, 0..9)

Re_M(s, i) == TwoDigits(s, i, 0..5, 0..9) \cup OneDigit(s, i, 0..9)

Re_S(s, i) ==
    TwoDigits(s, i, {6}, 0..1) \cup TwoDigits(s, i, 0..5, 0..9)
        \cup OneDigit(s, i, 0..9)

\* Every way the whole expression matches a prefix of s: the fields found and
\* the position after the match.
RegexMatches(s) ==
    UNION { UNION { UNION { UNION { UNION { UNION {
      { [year |-> Y[1], month |-> m[1], day |-> d[1], hour |-> H[1],
         minute |-> M[1], second |-> S[1], end |-> e3]
        : e3 \in UNION { UNION { Literal(s, e2, "0")
                  : e2 \in Literal(s, e1, "0") }
                  : e1 \in Literal(s, S[2], "+") } }
      : S \in UNION { Re_S(s, c2) : c2 \in Literal(s, M[2], ":") } }
      : M \in UNION { Re_M(s, c1) : c1 \in Literal(s, H[2], ":") } }
      : H \in UNION { Re_H(s, b) : b \in Blanks(s, d[2]) } }
      : d \in UNION { Re_d(s, h2) : h2 \in Literal(s, m[2], "-") } }
      : m \in UNION { Re_m(s, h1) : h1 \in Literal(s, Y[2], "-") } }
      : Y \in Re_Y(s, 1) }

\* The datetime constructor's range checks on the fields found
ValidFields(f) ==
    /\ f.year \in 1..9999
    /\ f.month \in 1..12
    /\ f.day \in 1..days_in_month(f.year, f.month)
    /\ f.hour \in 0..23
    /\ f.minute \in 0..59
    /\ f.second \in 0..59

\* strptime that lets unconverted data remain after the match
strptime_prefix(s) ==
    { [year |-> f.year, month |-> f.month, day |-> f.day, hour |-> f.hour,
       minute |-> f.minute, second |-> f.second, tz |-> "naive"]
      : f \in { g \in RegexMatches(s) : ValidFields(g) } }

\* strptime: the set holding the datetime parsed, empty where strptime raises
\* ValueError (no match, unconverted data remains, or a field out of range).
strptime(s) ==
    { [year |-> f.year, month |-> f.month, day |-> f.day, hour |-> f.hour,
       minute |-> f.minute, second |-> f.second, tz |-> "naive"]
      : f \in { g \in RegexMatches(s) : g.end = Len(s) + 1 /\ ValidFields(g) } }

(***************************************************************************)
(* The time functions                                                      *)
(***************************************************************************)
BadArgumentType == <<__name__, ": bad argument type">>

\* UNIXtime_to_ISO8601 testing the sign before the type
UNIXtime_to_ISO8601_sign_first(unixtime) ==
    IF IsNumeric(unixtime) /\ unixtime.v < 0
    THEN Raise("ValueError",
               <<__name__, ": negative time values not allowed">>)
    ELSE IF IsInt(unixtime)
    THEN Return(StrVal(strftime(utcfromtimestamp(unixtime.v))))
    ELSE Raise("TypeError", BadArgumentType)

\* converter.UNIXtime_to_ISO8601
UNIXtime_to_ISO8601(unixtime) ==
    IF IsInt(unixtime)
    THEN IF unixtime.v < 0
         THEN Raise("ValueError",
                    <<__name__, ": negative time values not allowed">>)
         ELSE Return(StrVal(strftime(utcfromtimestamp(unixtime.v))))
    ELSE Raise("TypeError", BadArgumentType)

\* converter.datetime_to_UNIXtime
datetime_to_UNIXtime(date) ==
    IF IsDatetime(date)
    THEN Return(IntVal(timegm(timetuple(date.v))))
    ELSE Raise("TypeError", BadArgumentType)

\* converter.ISO8601_to_UNIXtime
ISO8601_to_UNIXtime(iso) ==
    IF IsStr(iso)
    THEN IF strptime(iso.v) = {}
         THEN Raise("ValueError",
                    <<__name__, ": bad format for input ISO8601 string, ' 'should have been: YYYY-MM-DD HH:MM:SS+00">>)
         ELSE LET d == CHOOSE x \in strptime(iso.v) : TRUE
              IN  datetime_to_UNIXtime(DatetimeVal(d))
    ELSE Raise("TypeError", BadArgumentType)

\* to_UNIXtime without its datetime branch
to_UNIXtime_no_datetime(timeobject) ==
    IF IsInt(timeobject) THEN Return(timeobject)
    ELSE IF IsStr(timeobject) THEN ISO8601_to_UNIXtime(timeobject)
    ELSE Raise("TypeError",
               <<"The time value must be espressed either by a long UNIX time, a datetime.datetime object or an ISO8601-formatted string">>)

\* converter.to_UNIXtime
to_UNIXtime(timeobject) ==
    IF IsInt(timeobject) THEN Return(timeobject)
    ELSE IF IsDatetime(timeobject) THEN datetime_to_UNIXtime(timeobject)
    ELSE IF IsStr(timeobject) THEN ISO8601_to_UNIXtime(timeobject)
    ELSE Raise("TypeError",
               <<"The time value must be espressed either by a long UNIX time, a datetime.datetime object or an ISO8601-formatted string">>)

(***************************************************************************)
(* The temperature functions                                               *)
(***************************************************************************)
\* Module constants, in float units (FAHRENHEIT_DEGREE_SCALE in tenths).
__KELVIN_OFFSET__ == 2731500
__FAHRENHEIT_OFFSET == 320000
__FAHRENHEIT_DEGREE_SCALE == 18

ModuleConstants ==
    [KELVIN_OFFSET |-> __KELVIN_OFFSET__,
     FAHRENHEIT_OFFSET |-> __FAHRENHEIT_OFFSET,
     FAHRENHEIT_DEGREE_SCALE |-> __FAHRENHEIT_DEGREE_SCALE]

\* The double computed for an expression whose exact value is u: the nearest
\* double lies below, on or above u, which shows only where u is a decimal
\* tie.  fperr is that side, the same all through a run.
FloatResult(u) == u + fperr

\* Two decimals by cutting the digits after the second, without rounding
Format2f_truncating(u) ==
    LET mag == IF u < 0 THEN 0 - u ELSE u
        h   == mag \div 100
    IN  (IF u < 0 THEN <<"-">> ELSE <<>>) \o Decimal(h \div 100) \o <<".">>
            \o ZeroPad(h % 100, 2)

\* "{0:.2f}".format(x): sign, integer part, point, two decimals; the decimal
\* expansion of the double is rounded half-to-even at the second decimal.
Format2f(u) ==
    LET mag == IF u < 0 THEN 0 - u ELSE u
        q   == mag \div 100
        r   == mag % 100
        h   == IF r > 50 \/ (r = 50 /\ q % 2 = 1) THEN q + 1 ELSE q
    IN  (IF u < 0 THEN <<"-">> ELSE <<>>) \o Decimal(h \div 100) \o <<".">>
            \o ZeroPad(h % 100, 2)

\* float(s) of a decimal literal [-]digits.digits with up to four decimals
ParseFloat(s) ==
    LET neg  == s[1] = "-"
        body == IF neg THEN SubSeq(s, 2, Len(s)) ELSE s
        dot  == CHOOSE i \in 1..Len(body) : body[i] = "."
        ip   == DigitsToInt(SubSeq(body, 1, dot - 1))
        fr   == SubSeq(body, dot + 1, Len(body))
        frU  == DigitsToInt(fr \o [i \in 1..(4 - Len(fr)) |-> "0"])
        mag  == ip * FloatUnit + frU
    IN  IF neg THEN 0 - mag ELSE mag

NegativeTemperature ==
    <<__name__, ": negative temperature values not allowed">>

\* converter.kelvin_to_celsius
kelvin_to_celsius(kelvintemp) ==
    IF IsNumeric(kelvintemp)
    THEN IF NumUnits(kelvintemp) < 0
         THEN Raise("ValueError", NegativeTemperature)
         ELSE LET celsiustemp ==
                      FloatResult(NumUnits(kelvintemp) - consts.KELVIN_OFFSET)
              IN  Return(FloatVal(ParseFloat(Format2f(celsiustemp))))
    ELSE Raise("TypeError", BadArgumentType)

\* kelvin_to_fahrenheit computed from the rounded result of kelvin_to_celsius
kelvin_to_fahrenheit_via_celsius(kelvintemp) ==
    IF IsNumeric(kelvintemp)
    THEN IF NumUnits(kelvintemp) < 0
         THEN Raise("ValueError", NegativeTemperature)
         ELSE LET fahrenheittemp ==
                      FloatResult(
                          (kelvin_to_celsius(kelvintemp).val.v
                              * consts.FAHRENHEIT_DEGREE_SCALE) \div 10
                          + consts.FAHRENHEIT_OFFSET)
              IN  Return(FloatVal(ParseFloat(Format2f(fahrenheittemp))))
    ELSE Raise("TypeError", BadArgumentType)

\* converter.kelvin_to_fahrenheit
kelvin_to_fahrenheit(kelvintemp) ==
    IF IsNumeric(kelvintemp)
    THEN IF NumUnits(kelvintemp) < 0
         THEN Raise("ValueError", NegativeTemperature)
         ELSE LET fahrenheittemp ==
                      FloatResult(
                          ((NumUnits(kelvintemp) - consts.KELVIN_OFFSET)
                              * consts.FAHRENHEIT_DEGREE_SCALE) \div 10
                          + consts.FAHRENHEIT_OFFSET)
              IN  Return(FloatVal(ParseFloat(Format2f(fahrenheittemp))))
    ELSE Raise("TypeError", BadArgumentType)

(***************************************************************************)
(* The arguments the functions are called with                             *)
(***************************************************************************)
\* Days since 1970-01-01 that begin or end a month, a year or a leap day,
\* up to 2038, and days spread over the years between.
EpochDays ==
    {0, 31, 58, 59, 364, 365, 789, 11016, 11017, 18627, 24854}
        \cup {(i * i * 307) % 24855 : i \in 0..MaxDayIdx}

EpochSeconds ==
    {0, 1, 59, 60, 3600, 86399}
        \cup {(j * 20011) % 86400 : j \in 0..MaxSecIdx}

EpochInputs == {d * 86400 + s : d \in EpochDays, s \in EpochSeconds}

IntInputs == {IntVal(n) : n \in EpochInputs \cup {-1, -5, -86400, 273, 300}}

\* Kelvin temperatures with three decimals: around the Kelvin offset, where
\* the Celsius value changes sign; every 0.025 K from it, where both results
\* are decimal ties; and near absolute zero and below it.
KelvinMilli ==
    {0, 5, 15, 3140, 273150, 273275, 300005, 1000000, -1, -5000}
        \cup {273150 + 25 * (2 * i - 5) : i \in 0..MaxKelvinIdx}
        \cup {273150 + 7 * i - 30 : i \in 0..MaxKelvinIdx}

FloatInputs == {FloatVal(10 * m) : m \in KelvinMilli}

DateFields ==
    {d \in [year : {1969, 2000, 2037}, month : {1, 2, 12},
            day : {1, 28, 29, 31}] : d.day <= days_in_month(d.year, d.month)}

TimeFields ==
    {[hour |-> 0, minute |-> 0, second |-> 0],
     [hour |-> 12, minute |-> 30, second |-> 15],
     [hour |-> 23, minute |-> 59, second |-> 59]}

\* datetime objects: naive, or aware with a tzinfo of the given UTC offset
DatetimeInputs ==
    {DatetimeVal([year |-> d.year, month |-> d.month, day |-> d.day,
                  hour |-> t.hour, minute |-> t.minute, second |-> t.second,
                  tz |-> z])
       : d \in DateFields, t \in TimeFields, z \in {"naive", "+02:00", "-05:00"}}

\* Strings: the fields below written zero-padded, without padding, or with a
\* blank-padded day and two blanks, each followed by a suffix.
TextDates ==
    {[month |-> 1, day |-> 1], [month |-> 2, day |-> 29],
     [month |-> 2, day |-> 30], [month |-> 12, day |-> 31],
     [month |-> 13, day |-> 1]}

TextTimes ==
    {[hour |-> 0, minute |-> 0, second |-> 0],
     [hour |-> 7, minute |-> 5, second |-> 9],
     [hour |-> 23, minute |-> 59, second |-> 59],
     [hour |-> 24, minute |-> 0, second |-> 0],
     [hour |-> 7, minute |-> 5, second |-> 60]}

TextSuffixes ==
    {<<"+", "0", "0">>, <<"+", "0", "1">>, <<"+", "0", "0", " ">>}

WriteField(n, w, style) == IF style = "padded" THEN ZeroPad(n, w) ELSE Decimal(n)

WriteDate(y, d, t, style, suffix) ==
    ZeroPad(y, 4) \o <<"-">> \o WriteField(d.month, 2, style) \o <<"-">>
        \o (IF style = "blank" /\ d.day < 10 THEN <<" ">> ELSE <<>>)
        \o WriteField(d.day, 2, style)
        \o (IF style = "blank" THEN <<" ", " ">> ELSE <<" ">>)
        \o WriteField(t.hour, 2, style) \o <<":">>
        \o WriteField(t.minute, 2, style) \o <<":">>
        \o WriteField(t.second, 2, style) \o suffix

TextInputs ==
    {WriteDate(y, d, t, style, suffix)
       : y \in {0, 1969, 2000}, d \in TextDates, t \in TextTimes,
         style \in {"padded", "bare", "blank"}, suffix \in TextSuffixes}
        \cup {<<"n", "o", "t", "-", "a", "-", "d", "a", "t", "e">>, <<>>,
              <<"2", "0", "2", "1", "-", "0", "1", "-", "0", "1">>}

StrInputs == {StrVal(s) : s \in TextInputs}

OtherInputs == {NoneVal, UnicodeVal(strftime(utcfromtimestamp(0)))}

Inputs ==
    IntInputs \cup FloatInputs \cup DatetimeInputs \cup StrInputs
        \cup OtherInputs

(***************************************************************************)
(* The state machine: a caller makes one call after another, each on the   *)
(* argument of the call before or on the time value that call returned.    *)
(***************************************************************************)
NoCall(x) == [fn |-> "none", arg |-> x]

Init ==
    /\ \E x \in Inputs : call = NoCall(x)
    /\ outcome = NoOutcome
    /\ prev = [call |-> NoCall(NoneVal), outcome |-> NoOutcome]
    /\ consts = ModuleConstants
    /\ fperr \in {-1, 0, 1}

\* A returned time value (int or str) can be passed on to the next call.
NextArgs ==
    {call.arg} \cup
        (IF outcome.kind = "return" /\ outcome.val.kind \in {"int", "str"}
         THEN {outcome.val} ELSE {})

\* Temperatures the model's float units can hold without overflow.
InFloatRange(x) == IsInt(x) => x.v \in -10000..10000

\* What every call does to the state besides computing its outcome.
Called(fn, x, result) ==
    /\ call' = [fn |-> fn, arg |-> x]
    /\ outcome' = result
    /\ prev' = [call |-> call, outcome |-> outcome]
    /\ UNCHANGED <<consts, fperr>>

Call_UNIXtime_to_ISO8601 ==
    \E x \in NextArgs : Called("UNIXtime_to_ISO8601", x, UNIXtime_to_ISO8601(x))

Call_ISO8601_to_UNIXtime ==
    \E x \in NextArgs : Called("ISO8601_to_UNIXtime", x, ISO8601_to_UNIXtime(x))

Call_to_UNIXtime ==
    \E x \in NextArgs : Called("to_UNIXtime", x, to_UNIXtime(x))

Call_datetime_to_UNIXtime ==
    \E x \in NextArgs : Called("datetime_to_UNIXtime", x, datetime_to_UNIXtime(x))

\* kelvin_to_celsius keeping the last result in the module's offset
Call_kelvin_to_celsius_storing ==
    \E x \in NextArgs :
        /\ InFloatRange(x)
        /\ call' = [fn |-> "kelvin_to_celsius", arg |-> x]
        /\ outcome' = kelvin_to_celsius(x)
        /\ prev' = [call |-> call, outcome |-> outcome]
        /\ consts' = IF kelvin_to_celsius(x).kind = "return"
                     THEN [consts EXCEPT !.KELVIN_OFFSET =
                               kelvin_to_celsius(x).val.v]
                     ELSE consts
        /\ UNCHANGED fperr

Call_kelvin_to_celsius ==
    \E x \in NextArgs :
        /\ InFloatRange(x)
        /\ Called("kelvin_to_celsius", x, kelvin_to_celsius(x))

Call_kelvin_to_fahrenheit ==
    \E x \in NextArgs :
        /\ InFloatRange(x)
        /\ Called("kelvin_to_fahrenheit", x, kelvin_to_fahrenheit(x))

Next ==
    \/ Call_UNIXtime_to_ISO8601
    \/ Call_ISO8601_to_UNIXtime
    \/ Call_to_UNIXtime
    \/ Call_datetime_to_UNIXtime
    \/ Call_kelvin_to_celsius
    \/ Call_kelvin_to_fahrenheit

Spec == Init /\ [][Next]_vars

TypeOK ==
    /\ call.fn \in {"none", "UNIXtime_to_ISO8601", "ISO8601_to_UNIXtime",
                    "to_UNIXtime", "datetime_to_UNIXtime", "kelvin_to_celsius",
                    "kelvin_to_fahrenheit"}
    /\ outcome.kind \in {"none", "return", "TypeError", "ValueError"}

(***************************************************************************)
(* Vocabulary of the properties                                            *)
(***************************************************************************)
\* The call raised exc and returned nothing.
Raised(exc) == outcome.kind = exc /\ outcome.val = NoneVal

\* The Gregorian leap-year rule
GregorianLeap(y) == (y % 4 = 0 /\ y % 100 # 0) \/ y % 400 = 0

YearLength(y) == IF GregorianLeap(y) THEN 366 ELSE 365

MonthLength(y, m) ==
    IF m = 2 THEN (IF GregorianLeap(y) THEN 29 ELSE 28)
    ELSE IF m \in {4, 6, 9, 11} THEN 30 ELSE 31

\* Days from 1970-01-01 to January 1st of year y, counted year by year
RECURSIVE DaysToYear(_)
DaysToYear(y) ==
    IF y = 1970 THEN 0
    ELSE IF y > 1970 THEN DaysToYear(y - 1) + YearLength(y - 1)
    ELSE DaysToYear(y + 1) - YearLength(y)

\* Days from January 1st of year y to the first of month m, month by month
RECURSIVE DaysToMonth(_, _)
DaysToMonth(y, m) ==
    IF m = 1 THEN 0 ELSE DaysToMonth(y, m - 1) + MonthLength(y, m - 1)

\* Number of Gregorian days from 1970-01-01 to y-m-d
GregorianDays(y, m, d) == DaysToYear(y) + DaysToMonth(y, m) + d - 1

\* Seconds from 1970-01-01T00:00:00Z to the fields of f read as UTC
UTCSeconds(f) ==
    86400 * GregorianDays(f.year, f.month, f.day)
        + 3600 * f.hour + 60 * f.minute + f.second

\* The fields name a date and time of the calendar (years 1 to 9999)
CalendarFields(f) ==
    /\ f.year \in 1..9999
    /\ f.month \in 1..12
    /\ f.day \in 1..MonthLength(f.year, f.month)
    /\ f.hour \in 0..23 /\ f.minute \in 0..59 /\ f.second \in 0..59

\* s has the form YYYY-MM-DD HH:MM:SS+00, read by columns
DigitColumns == {1, 2, 3, 4, 6, 7, 9, 10, 12, 13, 15, 16, 18, 19}

ExactForm(s) ==
    /\ Len(s) = 22
    /\ \A i \in DigitColumns : IsDigit(s[i])
    /\ s[5] = "-" /\ s[8] = "-" /\ s[11] = " " /\ s[14] = ":" /\ s[17] = ":"
    /\ s[20] = "+" /\ s[21] = "0" /\ s[22] = "0"

ColumnFields(s) ==
    [year |-> DigitsToInt(SubSeq(s, 1, 4)), month |-> DigitsToInt(SubSeq(s, 6, 7)),
     day |-> DigitsToInt(SubSeq(s, 9, 10)), hour |-> DigitsToInt(SubSeq(s, 12, 13)),
     minute |-> DigitsToInt(SubSeq(s, 15, 16)),
     second |-> DigitsToInt(SubSeq(s, 18, 19))]

EndsWithPlus00(s) ==
    Len(s) >= 3 /\ SubSeq(s, Len(s) - 2, Len(s)) = <<"+", "0", "0">>

(***************************************************************************)
(* C1.  Round trip: for every epoch e >= 0, UNIXtime_to_ISO8601(e) returns *)
(* a string, and ISO8601_to_UNIXtime called on that string returns e.      *)
(***************************************************************************)
C1_RoundTrip ==
    /\ (call.fn = "UNIXtime_to_ISO8601" /\ IsInt(call.arg) /\ call.arg.v >= 0)
          => (outcome.kind = "return" /\ IsStr(outcome.val))
    /\ (/\ call.fn = "ISO8601_to_UNIXtime"
        /\ prev.call.fn = "UNIXtime_to_ISO8601"
        /\ IsInt(prev.call.arg) /\ prev.call.arg.v >= 0
        /\ prev.outcome.kind = "return"
        /\ call.arg = prev.outcome.val)
          => outcome = Return(prev.call.arg)

\* a round trip through the last second of 2000-02-29 or later has been made
C1_Witness ==
    /\ call.fn = "ISO8601_to_UNIXtime"
    /\ prev.call.fn = "UNIXtime_to_ISO8601"
    /\ IsInt(prev.call.arg) /\ prev.call.arg.v >= 11016 * 86400 + 86399
    /\ call.arg = prev.outcome.val
    /\ outcome = Return(prev.call.arg)

(***************************************************************************)
(* C3.  to_UNIXtime dispatches on the kind of its argument: an int is      *)
(* returned unchanged, a datetime gives the outcome of                     *)
(* datetime_to_UNIXtime, a str the outcome (value or error) of             *)
(* ISO8601_to_UNIXtime, and anything else raises TypeError.                *)
(***************************************************************************)
C3_Dispatch ==
    /\ call.fn = "to_UNIXtime" =>
        /\ IsInt(call.arg) => outcome = Return(call.arg)
        /\ IsDatetime(call.arg) => outcome = datetime_to_UNIXtime(call.arg)
        /\ IsStr(call.arg) => outcome = ISO8601_to_UNIXtime(call.arg)
        /\ call.arg.kind \notin {"int", "datetime", "str"} => Raised("TypeError")
    \* the same, observed on two calls in a row on one argument
    /\ (/\ call.fn = "to_UNIXtime" /\ prev.call.arg = call.arg
        /\ \/ prev.call.fn = "datetime_to_UNIXtime" /\ IsDatetime(call.arg)
           \/ prev.call.fn = "ISO8601_to_UNIXtime" /\ IsStr(call.arg))
          => outcome = prev.outcome

\* to_UNIXtime has been called on a datetime right after datetime_to_UNIXtime
C3_Witness ==
    /\ call.fn = "to_UNIXtime" /\ IsDatetime(call.arg)
    /\ prev.call.fn = "datetime_to_UNIXtime" /\ prev.call.arg = call.arg
    /\ outcome.kind = "return"

(***************************************************************************)
(* C4.  datetime_to_UNIXtime is UTC calendar arithmetic on the fields:     *)
(* 86400 * (Gregorian days from 1970-01-01) + 3600*hour + 60*minute +      *)
(* second, whatever offset the value carries; anything that is not a       *)
(* datetime raises TypeError.                                              *)
(***************************************************************************)
C4_UTCArithmetic ==
    call.fn = "datetime_to_UNIXtime" =>
        IF IsDatetime(call.arg)
        THEN outcome = Return(IntVal(UTCSeconds(call.arg.v)))
        ELSE Raised("TypeError")

\* an aware datetime after the leap day of 2000 has been converted
C4_Witness ==
    /\ call.fn = "datetime_to_UNIXtime" /\ IsDatetime(call.arg)
    /\ call.arg.v.tz = "+02:00" /\ call.arg.v.year = 2000
    /\ call.arg.v.month = 12 /\ call.arg.v.hour = 23
    /\ outcome.kind = "return"

(***************************************************************************)
(* C5.  UNIXtime_to_ISO8601 checks before it computes: a non-integer       *)
(* raises TypeError (a negative one too), a negative integer raises        *)
(* ValueError, and only a non-negative integer gives a string: the UTC     *)
(* calendar time written zero-padded as YYYY-MM-DD HH:MM:SS+00.            *)
(***************************************************************************)
C5_Validation ==
    call.fn = "UNIXtime_to_ISO8601" =>
        /\ ~IsInt(call.arg) => Raised("TypeError")
        /\ (IsInt(call.arg) /\ call.arg.v < 0) => Raised("ValueError")
        /\ (IsInt(call.arg) /\ call.arg.v >= 0) =>
              /\ outcome.kind = "return" /\ IsStr(outcome.val)
              /\ ExactForm(outcome.val.v)
              /\ CalendarFields(ColumnFields(outcome.val.v))
              /\ UTCSeconds(ColumnFields(outcome.val.v)) = call.arg.v
        /\ call.arg = IntVal(0) =>
              outcome = Return(StrVal(
                  <<"1", "9", "7", "0", "-", "0", "1", "-", "0", "1", " ",
                    "0", "0", ":", "0", "0", ":", "0", "0", "+", "0", "0">>))

\* a negative float has been refused for its type
C5_Witness ==
    /\ call.fn = "UNIXtime_to_ISO8601"
    /\ call.arg.kind = "float" /\ call.arg.v < 0
    /\ Raised("TypeError")

Distance(a, b) == IF a < b THEN b - a ELSE a - b

C7_Celsius ==
    call.fn = "kelvin_to_celsius" =>
        /\ ~IsNumeric(call.arg) => Raised("TypeError")
        /\ (IsNumeric(call.arg) /\ NumUnits(call.arg) < 0) => Raised("ValueError")
        /\ (IsNumeric(call.arg) /\ NumUnits(call.arg) >= 0) =>
              /\ outcome.kind = "return" /\ outcome.val.kind = "float"
              /\ outcome.val.v % 100 = 0
              /\ Distance(outcome.val.v, NumUnits(call.arg) - 2731500) <= 50
        /\ (IsNumeric(call.arg) /\ NumUnits(call.arg) = 0) =>
              outcome = Return(FloatVal(0 - 2731500))

\* a temperature whose Celsius value needs rounding up has been converted
C7_Witness ==
    /\ call.fn = "kelvin_to_celsius" /\ call.arg.kind = "float"
    /\ (call.arg.v - 2731500) % 100 > 50
    /\ outcome.kind = "return"

(***************************************************************************)
(* C8.  kelvin_to_fahrenheit: for a numeric k >= 0 the result is           *)
(* (k - 273.15) * 1.8 + 32.0 rounded to two decimals, the rounding applied *)
(* once, to the Fahrenheit value; k < 0 raises ValueError and anything     *)
(* that is not numeric raises TypeError, as in kelvin_to_celsius.          *)
(***************************************************************************)
C8_Fahrenheit ==
    call.fn = "kelvin_to_fahrenheit" =>
        /\ ~IsNumeric(call.arg) => Raised("TypeError")
        /\ (IsNumeric(call.arg) /\ NumUnits(call.arg) < 0) => Raised("ValueError")
        /\ (IsNumeric(call.arg) /\ NumUnits(call.arg) >= 0) =>
              /\ outcome.kind = "return" /\ outcome.val.kind = "float"
              /\ outcome.val.v % 100 = 0
              \* ten times the distance to the exact Fahrenheit value
              /\ Distance(10 * outcome.val.v,
                          (NumUnits(call.arg) - 2731500) * 18 + 3200000) <= 500

\* a temperature whose Celsius value rounds down and whose Fahrenheit value
\* rounds up has been converted
C8_Witness ==
    /\ call.fn = "kelvin_to_fahrenheit" /\ call.arg.kind = "float"
    /\ (call.arg.v - 2731500) % 100 \in 1..49
    /\ (((call.arg.v - 2731500) * 18) \div 10) % 100 > 50
    /\ outcome.kind = "return"

(***************************************************************************)
(* C10.  Statelessness: after any sequence of calls the module constants   *)
(* are what the module set them to, and the outcome of a call depends on   *)
(* its argument alone: it is the outcome the function gives now, and the   *)
(* outcome the same call gave just before.                                 *)
(***************************************************************************)
Apply(fn, x) ==
    CASE fn = "UNIXtime_to_ISO8601" -> UNIXtime_to_ISO8601(x)
      [] fn = "ISO8601_to_UNIXtime" -> ISO8601_to_UNIXtime(x)
      [] fn = "to_UNIXtime" -> to_UNIXtime(x)
      [] fn = "datetime_to_UNIXtime" -> datetime_to_UNIXtime(x)
      [] fn = "kelvin_to_celsius" -> kelvin_to_celsius(x)
      [] fn = "kelvin_to_fahrenheit" -> kelvin_to_fahrenheit(x)

C10_Stateless ==
    /\ consts = [KELVIN_OFFSET |-> 2731500, FAHRENHEIT_OFFSET |-> 320000,
                 FAHRENHEIT_DEGREE_SCALE |-> 18]
    /\ call.fn # "none" => outcome = Apply(call.fn, call.arg)
    /\ prev.call = call => prev.outcome = outcome

\* kelvin_to_celsius has been called twice in a row on one temperature
C10_Witness ==
    /\ call.fn = "kelvin_to_celsius" /\ prev.call = call
    /\ outcome.kind = "return"

(***************************************************************************)
(* C2.  Epoch time is never negative: to_UNIXtime, ISO8601_to_UNIXtime and *)
(* datetime_to_UNIXtime return a non-negative integer or raise, and a      *)
(* negative integer passed to UNIXtime_to_ISO8601 or to_UNIXtime is        *)
(* refused with an error.                                                  *)
(***************************************************************************)
C2_EpochNeverNegative ==
    /\ (call.fn \in {"to_UNIXtime", "ISO8601_to_UNIXtime", "datetime_to_UNIXtime"}
          /\ outcome.kind = "return")
          => (IsInt(outcome.val) /\ outcome.val.v >= 0)
    /\ (call.fn \in {"UNIXtime_to_ISO8601", "to_UNIXtime"}
          /\ IsInt(call.arg) /\ call.arg.v < 0)
          => outcome.kind \in {"TypeError", "ValueError"}

(***************************************************************************)
(* C9.  Every error raised by the six functions carries a message that     *)
(* names the module (or the function) that raised it.                      *)
(***************************************************************************)
NamesItsOrigin(m) ==
    \E i \in 1..Len(m) :
        m[i] \in {__name__, "UNIXtime_to_ISO8601", "ISO8601_to_UNIXtime",
                  "to_UNIXtime", "datetime_to_UNIXtime", "kelvin_to_celsius",
                  "kelvin_to_fahrenheit"}

C9_ErrorsNameOrigin ==
    outcome.kind \in {"TypeError", "ValueError"} => NamesItsOrigin(outcome.msg)

====
